---- MODULE Spec2Model ----
(***************************************************************************)
(* Model of the websocket session controller of src/main.py: the session   *)
(* store (SESSIONS, get_session, remaining_time) and the dispatch loop of  *)
(* ws_endpoint.  The event loop is single-threaded and cooperative: a      *)
(* handler runs without interruption from one await to the next, so every  *)
(* action below is the code between two awaits of one handler.  The value  *)
(* of pc[c] names the await the handler of connection c is suspended at,   *)
(* by its line number in src/main.py.  A send is carried out when it is    *)
(* called (it raises when the peer is gone) and the handler is then        *)
(* suspended at that line until it is resumed by a later action.  The      *)
(* recorder (log_event, log_followup) writes to files and may raise at any *)
(* call; pc[c] = "raised" says that an exception left ws_endpoint.         *)
(***************************************************************************)
EXTENDS Integers, Sequences, FiniteSets, TLC

\* ---------------------------------------------------------------- bounds
TicksPerSecond == 2  \* resolution of the clock: ticks in one second
MaxDrift == 1        \* instants kept after the start and after the limit

\* ------------------------------------------------------ program constants
MAX_QUESTIONS == 3
TIME_LIMIT_SECONDS == 180
TextCap == 2000
FollowupCap == 4000

Conns == {1, 2}                      \* the connections of a run
NoSid == "none"                      \* no sid query parameter
SidParams == {NoSid, "unknown"}      \* what a client may pass as ?sid=

\* Texts are sequences of characters.
Blank == " "
RawTexts == {<< >>, <<Blank>>, <<Blank, "q">>}
Answers == {<<"r">>}                 \* what the backend may return

GREETING == <<"greeting">>
TIME_OVER_MSG == <<"time_over">>
BLOCKED_MSG == <<"blocked">>
LIMIT_MSG == <<"limit">>
APOLOGY == <<"apology">>
FOLLOWUP_PROMPT == <<"followup_prompt">>
CLOSING_MSG == <<"closing">>
UNKNOWN_MSG == <<"unknown_request">>

Max(a, b) == IF a >= b THEN a ELSE b

\* s[:n]
Take(s, n) == IF Len(s) <= n THEN s ELSE SubSeq(s, 1, n)

RECURSIVE LStrip(_)
LStrip(s) == IF s # << >> /\ Head(s) = Blank THEN LStrip(Tail(s)) ELSE s

RECURSIVE RStrip(_)
RStrip(s) ==
  IF s # << >> /\ s[Len(s)] = Blank THEN RStrip(SubSeq(s, 1, Len(s) - 1)) ELSE s

\* str.strip()
Strip(s) == RStrip(LStrip(s))

\* int(): truncation toward zero of num/den, den > 0
IntTrunc(num, den) == IF num >= 0 THEN num \div den ELSE -((-num) \div den)

\* The instants the clock may show, in ticks: a few around the start of the
\* run and a few around the time limit.
LimitTicks == TIME_LIMIT_SECONDS * TicksPerSecond
Instants == (0..MaxDrift) \cup ((LimitTicks - 1)..(LimitTicks - 1 + MaxDrift))

\* ------------------------------------------------------------ inbound frames
\* A frame is malformed (json.loads raises), valid JSON that is not an
\* object, or an object with a type tag and a text field.
Frames ==
  {[kind |-> k, type |-> "", text |-> << >>] : k \in {"malformed", "nondict"}}
    \cup {[kind |-> "object", type |-> t, text |-> << >>] :
            t \in {"hello", "exit", "question", "bogus"}}
    \cup {[kind |-> "object", type |-> t, text |-> x] :
            t \in {"user_message", "followup_answer"}, x \in RawTexts}

\* json.loads without the except clause of lines 1363-1364
Parse_NoFallback(frame) == frame

\* json.loads with its fallback envelope
Parse(frame) ==
  IF frame.kind = "malformed"
    THEN [kind |-> "object", type |-> "unknown", text |-> << >>]
    ELSE frame

\* ----------------------------------------------------------- outbound events
AiEv(text) == [type |-> "ai", text |-> text]

\* the typing indicator never switched off
TypingEv_AlwaysOn(on) == [type |-> "typing", on |-> TRUE]

TypingEv(on) == [type |-> "typing", on |-> on]

VARIABLES
  now,        \* time.time(), in ticks
  SESSIONS,   \* the session store: sid -> session record
  pc,         \* per connection: the await its handler is suspended at
  sidOf,      \* per connection: the sid local of ws_endpoint
  user_text,  \* per connection: the user_text local of ws_endpoint
  answer,     \* per connection: the answer local of ws_endpoint
  out,        \* per connection: events sent for the frame being processed
  rec,        \* per connection: events recorded for the frame being processed
  messages,   \* per connection: the messages list of its ask_gpt call in flight
  registry,   \* multi-party variant: the endpoints that are members
  closed,     \* multi-party variant: the endpoints whose peer has gone
  fanout,     \* multi-party variant: the broadcast in progress
  delivered   \* multi-party variant: per endpoint, the broadcasts it received

corevars == <<now, SESSIONS, pc, sidOf, user_text, answer, out, rec, messages>>

regvars == <<registry, closed, fanout, delivered>>

vars == <<corevars, regvars>>

\* ------------------------------------------------------------- session store
NewSession(t) == [start_ts |-> t, count |-> 0, phase |-> "qa", history |-> << >>]

\* a session made anew at every call
get_session_Fresh(store, sid, t) == (sid :> NewSession(t)) @@ store

get_session(store, sid, t) ==
  IF sid \in DOMAIN store THEN store ELSE (sid :> NewSession(t)) @@ store

remaining_time(s, t) ==
  Max(0, IntTrunc(LimitTicks - (t - s.start_ts), TicksPerSecond))

send_state(s, t) ==
  [type |-> "state",
   phase |-> s.phase,
   remainingQuestions |-> Max(0, MAX_QUESTIONS - s.count),
   remainingSeconds |-> remaining_time(s, t)]

\* sid = (sid or "unknown")[:64]; the parameters drawn here are shorter than 64
NormSid(p) == IF p = NoSid THEN "unknown" ELSE p

Sess(c) == SESSIONS[sidOf[c]]

SetSess(c, s) == SESSIONS' = [SESSIONS EXCEPT ![sidOf[c]] = s]

\* ---------------------------------------------------------- branch conditions
\* line 1369 without its test of the phase
TimeOver_AnyPhase(s, t) == remaining_time(s, t) <= 0

TimeOver(s, t) == remaining_time(s, t) <= 0 /\ s.phase # "done"

\* line 1400 with > for >=
QuotaUsed_Strict(s) == s.count > MAX_QUESTIONS

\* the quota taken as used one question early
QuotaUsed_Early(s) == s.count >= MAX_QUESTIONS - 1

QuotaUsed(s) == s.count >= MAX_QUESTIONS

\* line 1454 without its test of the phase
EnterFollowup_AnyPhase(s) == s.count >= MAX_QUESTIONS

EnterFollowup(s) == s.count >= MAX_QUESTIONS /\ s.phase = "qa"

\* line 1449 skipped when the reply is the apology
CountAfterReply_SuccessOnly(n, ok) == IF ok THEN n + 1 ELSE n

\* line 1449: the increment does not look at how the reply was produced
CountAfterReply(n, ok) == n + 1

\* ------------------------------------------------- lines 131-141: ask_gpt
HistoryCap == 10

SYSTEM_PROMPT == [role |-> "system", content |-> <<"system_prompt">>]
INCIDENT_FACTS == [role |-> "system", content |-> <<"incident_facts">>]

\* history[:10]: the oldest turns instead of the most recent
Trimmed_Oldest(history) ==
  IF Len(history) <= HistoryCap THEN history ELSE SubSeq(history, 1, HistoryCap)

\* history[-10:] if history else []
Trimmed(history) ==
  IF Len(history) <= HistoryCap
    THEN history
    ELSE SubSeq(history, Len(history) - HistoryCap + 1, Len(history))

\* the messages list of ask_gpt
BuildMessages(text, history) ==
  <<SYSTEM_PROMPT, INCIDENT_FACTS>>
    \o Trimmed(history)
    \o <<[role |-> "user", content |-> text]>>

\* line 1410 without .strip()
UserText_Unstripped(payload) == Take(payload.text, TextCap)

UserText(payload) == Strip(Take(payload.text, TextCap))

FollowupText(payload) == Strip(Take(payload.text, FollowupCap))

\* The phased variant of src/main.py keeps no registry: the registry stays
\* empty in it.
MaxEndpoints == 3

Endpoints == 1..MaxEndpoints

NoRegistry ==
  /\ registry = {}
  /\ closed = {}
  /\ fanout = [n |-> 0, snapshot |-> {}, todo |-> {}]
  /\ delivered = [e \in Endpoints |-> << >>]

Init ==
  /\ NoRegistry
  /\ now = 0
  /\ SESSIONS = << >>
  /\ pc = [c \in Conns |-> "off"]
  /\ sidOf = [c \in Conns |-> "unknown"]
  /\ user_text = [c \in Conns |-> << >>]
  /\ answer = [c \in Conns |-> << >>]
  /\ out = [c \in Conns |-> << >>]
  /\ rec = [c \in Conns |-> << >>]
  /\ messages = [c \in Conns |-> << >>]

\* ------------------------------------------------------------- environment
\* The awaits a handler stays in for long: waiting for a frame and waiting
\* for the backend.  A send returns within a tick of the clock.
Waiting(c) == pc[c] \in {"off", "end", "raised", "L1360", "L1426"}

\* The clock advances.  Only differences of time.time() are used, so the
\* clock of the model starts when the first session is created.
Tick ==
  /\ SESSIONS # << >>
  /\ \A c \in Conns : Waiting(c)
  /\ \E t \in Instants : t > now /\ now' = t
  /\ UNCHANGED <<SESSIONS, pc, sidOf, user_text, answer, out, rec, messages, regvars>>

\* ------------------------------------------------ lines 1335-1348: accept
Connect(c) ==
  /\ pc[c] = "off"
  /\ \E p \in SidParams :
       /\ sidOf' = [sidOf EXCEPT ![c] = NormSid(p)]
       /\ SESSIONS' = get_session(SESSIONS, NormSid(p), now)
  /\ \/ /\ pc' = [pc EXCEPT ![c] = "L1360"]
        /\ rec' = [rec EXCEPT ![c] = <<"connect">>]
     \/ \* log_event of line 1348 raised
        /\ pc' = [pc EXCEPT ![c] = "raised"]
        /\ UNCHANGED rec
  /\ UNCHANGED <<now, user_text, answer, out, messages, regvars>>

\* --------------------------------------------------------- step helpers
\* What a handler keeps of the frame it processed is dropped when it goes
\* back to receive_text or returns.
Forget(c) ==
  /\ user_text' = [user_text EXCEPT ![c] = << >>]
  /\ answer' = [answer EXCEPT ![c] = << >>]
  /\ out' = [out EXCEPT ![c] = << >>]
  /\ rec' = [rec EXCEPT ![c] = << >>]

\* The handler ends: break after ws.close(), or one of the except clauses
\* of lines 1504-1511, which records why.
Halt(c, why) ==
  /\ pc' = [pc EXCEPT ![c] = "end"]
  /\ user_text' = [user_text EXCEPT ![c] = << >>]
  /\ answer' = [answer EXCEPT ![c] = << >>]
  /\ out' = [out EXCEPT ![c] = << >>]
  /\ rec' = [rec EXCEPT ![c] = why]

\* An exception leaves ws_endpoint: raised outside the try block, or raised
\* by log_event inside one of the except clauses of lines 1504-1511.
Escape(c) ==
  /\ pc' = [pc EXCEPT ![c] = "raised"]
  /\ Forget(c)

\* lines 1504-1505: WebSocketDisconnect is caught and recorded, if the
\* recorder works.
Disconnected(c) == Halt(c, <<"disconnect">>) \/ Escape(c)

\* lines 1506-1511: any other exception is caught and recorded, if the
\* recorder works, and the connection is closed.
Crash(c) == Halt(c, <<"error">>) \/ Escape(c)

\* The last send of a branch returned: next iteration, at receive_text.
Back(c) ==
  /\ pc' = [pc EXCEPT ![c] = "L1360"]
  /\ Forget(c)

\* The handler has logged logs, has txt and ans in its locals, and has
\* sent ev by the ws.send_text of line next, where it is suspended.
Sent(c, logs, ev, next, txt, ans) ==
  /\ pc' = [pc EXCEPT ![c] = next]
  /\ user_text' = [user_text EXCEPT ![c] = txt]
  /\ answer' = [answer EXCEPT ![c] = ans]
  /\ rec' = [rec EXCEPT ![c] = IF pc[c] = "L1360" THEN logs ELSE @ \o logs]
  /\ out' = [out EXCEPT ![c] = Append(@, ev)]

\* The handler records logs and calls ws.send_text(ev) at line next.  Either
\* the event is sent and the handler is suspended in that send, or the peer
\* has closed the connection by then and the send raises
\* WebSocketDisconnect, or one of the calls of the recorder raised before
\* the send.
Send(c, logs, ev, next, txt, ans) ==
  /\ \/ Sent(c, logs, ev, next, txt, ans)
     \/ Disconnected(c)
     \/ logs # << >> /\ Crash(c)
  /\ UNCHANGED <<now, sidOf>>

\* A handler resumed from an await other than receive_text and to_thread
Resume(c, logs, ev, next) ==
  /\ Send(c, logs, ev, next, user_text[c], answer[c])
  /\ UNCHANGED <<messages, regvars>>

\* receive_text returned a frame and its first send is at line next
Start(c, logs, ev, next, txt) ==
  /\ Send(c, logs, ev, next, txt, answer[c])
  /\ UNCHANGED <<messages, regvars>>

Receiving(c) == pc[c] = "L1360"

\* -------------------------------------------- line 1360: receive_text raises
RecvDisconnect(c) ==
  /\ Receiving(c)
  /\ Disconnected(c)
  /\ UNCHANGED <<now, SESSIONS, sidOf, messages, regvars>>

\* ------------------------------ line 1366: payload.get on a non-object raises
RecvNonDict(c) ==
  /\ Receiving(c)
  /\ \E f \in Frames : Parse(f).kind = "nondict"
  /\ Crash(c)
  /\ UNCHANGED <<now, SESSIONS, sidOf, messages, regvars>>

\* ------------------------------------------------ lines 1368-1378: deadline
RecvTimeOver(c) ==
  /\ Receiving(c)
  /\ TimeOver(Sess(c), now)
  /\ \E f \in Frames : Parse(f).kind = "object"
  /\ LET s2 == [Sess(c) EXCEPT !.phase = "done"] IN
       /\ SetSess(c, s2)
       /\ Start(c, <<"time_over">>, send_state(s2, now), "L1372", << >>)

TimeOverAi(c) ==
  /\ pc[c] = "L1372"
  /\ Resume(c, << >>, AiEv(TIME_OVER_MSG), "L1373")
  /\ UNCHANGED SESSIONS

\* lines 1377-1378: ws.close() and break
TimeOverClose(c) ==
  /\ pc[c] = "L1373"
  /\ Halt(c, << >>)
  /\ UNCHANGED <<now, SESSIONS, sidOf, messages, regvars>>

\* The frame f is dispatched on its tag: it is an object and the deadline
\* branch was not taken.
Dispatched(c, f, tags) ==
  /\ Receiving(c)
  /\ Parse(f).kind = "object"
  /\ ~TimeOver(Sess(c), now)
  /\ Parse(f).type \in tags

\* --------------------------------------------------- lines 1380-1388: hello
RecvHello(c) ==
  \E f \in Frames :
    /\ Dispatched(c, f, {"hello"})
    /\ Start(c, <<"hello">>, AiEv(GREETING), "L1387", << >>)
    /\ UNCHANGED SESSIONS

HelloState(c) ==
  /\ pc[c] = "L1387"
  /\ Resume(c, << >>, send_state(Sess(c), now), "L1388")
  /\ UNCHANGED SESSIONS

\* ------------------------------------ lines 1390-1398: user_message, blocked
RecvUserBlocked(c) ==
  \E f \in Frames :
    /\ Dispatched(c, f, {"user_message"})
    /\ Sess(c).phase # "qa"
    /\ Start(c, <<"blocked_message_phase">>, AiEv(BLOCKED_MSG), "L1393", << >>)
    /\ UNCHANGED SESSIONS

BlockedState(c) ==
  /\ pc[c] = "L1393"
  /\ Resume(c, << >>, send_state(Sess(c), now), "L1397")
  /\ UNCHANGED SESSIONS

\* -------------------------------- lines 1400-1408: user_message, quota used
RecvUserLimit(c) ==
  \E f \in Frames :
    /\ Dispatched(c, f, {"user_message"})
    /\ Sess(c).phase = "qa"
    /\ QuotaUsed(Sess(c))
    /\ LET s2 == [Sess(c) EXCEPT !.phase = "followup"] IN
         /\ SetSess(c, s2)
         /\ Start(c, <<"blocked_message_limit">>, send_state(s2, now), "L1403", << >>)

LimitAi(c) ==
  /\ pc[c] = "L1403"
  /\ Resume(c, << >>, AiEv(LIMIT_MSG), "L1404")
  /\ UNCHANGED SESSIONS

\* ------------------------------- lines 1410-1413: user_message, empty text
RecvUserEmpty(c) ==
  \E f \in Frames :
    /\ Dispatched(c, f, {"user_message"})
    /\ Sess(c).phase = "qa"
    /\ ~QuotaUsed(Sess(c))
    /\ UserText(Parse(f)) = << >>
    /\ Start(c, << >>, send_state(Sess(c), now), "L1412", << >>)
    /\ UNCHANGED SESSIONS

\* --------------------------------- lines 1415-1421: user_message, accepted
RecvUserAccept(c) ==
  \E f \in Frames :
    /\ Dispatched(c, f, {"user_message"})
    /\ Sess(c).phase = "qa"
    /\ ~QuotaUsed(Sess(c))
    /\ UserText(Parse(f)) # << >>
    /\ Start(c, <<"user_message">>, TypingEv(TRUE), "L1418", UserText(Parse(f)))
    /\ UNCHANGED SESSIONS

\* lines 1424-1426: the user turn is appended and ask_gpt goes to a thread
GenDispatch(c) ==
  /\ pc[c] = "L1418"
  /\ SetSess(c, [Sess(c) EXCEPT
       !.history = Append(@, [role |-> "user", content |-> user_text[c]])])
  /\ pc' = [pc EXCEPT ![c] = "L1426"]
  /\ UNCHANGED <<now, sidOf, user_text, answer, out, rec, messages, regvars>>

\* lines 131-141, in the worker thread: ask_gpt builds its request from the
\* history list it was passed, which is the list of the session itself.  The
\* thread runs beside the event loop, so other handlers of the session may
\* have run since the dispatch.
ask_gpt(c) ==
  /\ pc[c] = "L1426"
  /\ messages[c] = << >>
  /\ messages' = [messages EXCEPT ![c] = BuildMessages(user_text[c], Sess(c).history)]
  /\ UNCHANGED <<now, SESSIONS, pc, sidOf, user_text, answer, out, rec, regvars>>

\* lines 1426-1427 and 1441: ask_gpt returned.  A connection closed during
\* the call shows when the send of line 1441 raises.
GenReturn(c) ==
  /\ pc[c] = "L1426"
  /\ messages[c] # << >>
  /\ messages' = [messages EXCEPT ![c] = << >>]
  /\ UNCHANGED regvars
  /\ \E a \in Answers :
       /\ SetSess(c, [Sess(c) EXCEPT
            !.history = Append(@, [role |-> "assistant", content |-> a])])
       /\ Send(c, << >>, TypingEv(FALSE), "L1441", user_text[c], a)

\* lines 1428-1436: ask_gpt raised; a failure of the send of line 1431 is
\* swallowed and the send of line 1441 then raises as well
GenRaise(c) ==
  /\ pc[c] = "L1426"
  /\ messages[c] # << >>
  /\ messages' = [messages EXCEPT ![c] = << >>]
  /\ UNCHANGED regvars
  /\ Send(c, <<"gpt_error">>, TypingEv(FALSE), "L1431", user_text[c], answer[c])
  /\ UNCHANGED SESSIONS

\* lines 1438-1444: the fixed apology becomes the answer
ApologyTyping(c) ==
  /\ pc[c] = "L1431"
  /\ Send(c, << >>, TypingEv(FALSE), "L1441", user_text[c], APOLOGY)
  /\ UNCHANGED <<SESSIONS, messages, regvars>>

\* the increment of line 1449 made before the send of line 1446
SendAnswer_Counting(c) ==
  /\ pc[c] = "L1441"
  /\ SetSess(c, [Sess(c) EXCEPT !.count = @ + 1])
  /\ Resume(c, << >>, AiEv(answer[c]), "L1446")

\* line 1446
SendAnswer(c) ==
  /\ pc[c] = "L1441"
  /\ Resume(c, << >>, AiEv(answer[c]), "L1446")
  /\ UNCHANGED SESSIONS

\* the increment of line 1449 without the log_event of line 1450
CountInc_Unrecorded(c) ==
  /\ pc[c] = "L1446"
  /\ LET s2 == [Sess(c) EXCEPT
                  !.count = CountAfterReply(@, answer[c] # APOLOGY)] IN
       /\ SetSess(c, s2)
       /\ Resume(c, << >>, send_state(s2, now), "L1451")

\* lines 1448-1451
CountInc(c) ==
  /\ pc[c] = "L1446"
  /\ LET s2 == [Sess(c) EXCEPT
                  !.count = CountAfterReply(@, answer[c] # APOLOGY)] IN
       /\ SetSess(c, s2)
       /\ Resume(c, <<"count_inc">>, send_state(s2, now), "L1451")

\* lines 1453-1457
FollowupEnter(c) ==
  /\ pc[c] = "L1451"
  /\ EnterFollowup(Sess(c))
  /\ LET s2 == [Sess(c) EXCEPT !.phase = "followup"] IN
       /\ SetSess(c, s2)
       /\ Resume(c, <<"enter_followup">>, send_state(s2, now), "L1457")

\* line 1454 false: next iteration
FollowupSkip(c) ==
  /\ pc[c] = "L1451"
  /\ ~EnterFollowup(Sess(c))
  /\ Back(c)
  /\ UNCHANGED <<now, SESSIONS, sidOf, messages, regvars>>

\* lines 1458-1461
FollowupPrompt(c) ==
  /\ pc[c] = "L1457"
  /\ Resume(c, << >>, AiEv(FOLLOWUP_PROMPT), "L1458")
  /\ UNCHANGED SESSIONS

\* --------------------------------- lines 1463-1467: followup_answer, blocked
RecvFollowupBlocked(c) ==
  \E f \in Frames :
    /\ Dispatched(c, f, {"followup_answer"})
    /\ Sess(c).phase # "followup"
    /\ Start(c, <<"blocked_followup_phase">>, send_state(Sess(c), now), "L1466", << >>)
    /\ UNCHANGED SESSIONS

\* ---------------------------------- lines 1469-1472: followup_answer, empty
RecvFollowupEmpty(c) ==
  \E f \in Frames :
    /\ Dispatched(c, f, {"followup_answer"})
    /\ Sess(c).phase = "followup"
    /\ FollowupText(Parse(f)) = << >>
    /\ Start(c, << >>, send_state(Sess(c), now), "L1471", << >>)
    /\ UNCHANGED SESSIONS

\* the accepted follow-up answer without the assignment of line 1478
RecvFollowupAccept_KeepsPhase(c) ==
  \E f \in Frames :
    /\ Dispatched(c, f, {"followup_answer"})
    /\ Sess(c).phase = "followup"
    /\ FollowupText(Parse(f)) # << >>
    /\ UNCHANGED SESSIONS
    /\ Start(c, <<"followup_answer", "followup_csv", "done">>,
             send_state(Sess(c), now), "L1480", FollowupText(Parse(f)))

\* ------------------------------- lines 1474-1487: followup_answer, accepted
RecvFollowupAccept(c) ==
  \E f \in Frames :
    /\ Dispatched(c, f, {"followup_answer"})
    /\ Sess(c).phase = "followup"
    /\ FollowupText(Parse(f)) # << >>
    /\ LET s2 == [Sess(c) EXCEPT !.phase = "done"] IN
         \/ /\ SetSess(c, s2)
            /\ Start(c, <<"followup_answer", "followup_csv", "done">>,
                     send_state(s2, now), "L1480", FollowupText(Parse(f)))
         \/ \* log_event or log_followup of lines 1475-1476 raised
            /\ Crash(c)
            /\ UNCHANGED <<now, SESSIONS, sidOf, messages, regvars>>

ClosingAi(c) ==
  /\ pc[c] = "L1480"
  /\ Resume(c, << >>, AiEv(CLOSING_MSG), "L1482")
  /\ UNCHANGED SESSIONS

\* lines 1486-1487: ws.close() and break
ClosingClose(c) ==
  /\ pc[c] = "L1482"
  /\ Halt(c, << >>)
  /\ UNCHANGED <<now, SESSIONS, sidOf, messages, regvars>>

\* exit without the assignment of line 1491
RecvExit_KeepsPhase(c) ==
  \E f \in Frames :
    /\ Dispatched(c, f, {"exit"})
    /\ UNCHANGED SESSIONS
    /\ Start(c, <<"exit">>, send_state(Sess(c), now), "L1492", << >>)

\* ---------------------------------------------------- lines 1489-1494: exit
RecvExit(c) ==
  \E f \in Frames :
    /\ Dispatched(c, f, {"exit"})
    /\ LET s2 == [Sess(c) EXCEPT !.phase = "done"] IN
         \/ /\ SetSess(c, s2)
            /\ \/ Sent(c, <<"exit">>, send_state(s2, now), "L1492", << >>, answer[c])
               \/ Disconnected(c)
            /\ UNCHANGED <<now, sidOf, messages, regvars>>
         \/ \* log_event of line 1490 raised, before the phase is set
            /\ Crash(c)
            /\ UNCHANGED <<now, SESSIONS, sidOf, messages, regvars>>

\* lines 1493-1494: ws.close() and break
ExitClose(c) ==
  /\ pc[c] = "L1492"
  /\ Halt(c, << >>)
  /\ UNCHANGED <<now, SESSIONS, sidOf, messages, regvars>>

\* ------------------------------------------- lines 1496-1502: any other tag
KnownTags == {"hello", "user_message", "followup_answer", "exit"}

RecvUnknown(c) ==
  \E f \in Frames :
    /\ Dispatched(c, f, {Parse(f).type} \ KnownTags)
    \* the recorded event carries the payload, of which the tag is kept here
    /\ Start(c, <<"unknown_input", Parse(f).type>>, AiEv(UNKNOWN_MSG), "L1498", << >>)
    /\ UNCHANGED SESSIONS

UnknownState(c) ==
  /\ pc[c] = "L1498"
  /\ Resume(c, << >>, send_state(Sess(c), now), "L1502")
  /\ UNCHANGED SESSIONS

\* ------------------- the last send of a branch returned: next loop iteration
LoopBack == {"L1388", "L1397", "L1404", "L1412", "L1458", "L1466", "L1471", "L1502"}

Continue(c) ==
  /\ pc[c] \in LoopBack
  /\ Back(c)
  /\ UNCHANGED <<now, SESSIONS, sidOf, messages, regvars>>

Next ==
  \/ Tick
  \/ \E c \in Conns :
       \/ Connect(c)
       \/ RecvDisconnect(c)
       \/ RecvNonDict(c)
       \/ RecvTimeOver(c)
       \/ TimeOverAi(c)
       \/ TimeOverClose(c)
       \/ RecvHello(c)
       \/ HelloState(c)
       \/ RecvUserBlocked(c)
       \/ BlockedState(c)
       \/ RecvUserLimit(c)
       \/ LimitAi(c)
       \/ RecvUserEmpty(c)
       \/ RecvUserAccept(c)
       \/ GenDispatch(c)
       \/ ask_gpt(c)
       \/ GenReturn(c)
       \/ GenRaise(c)
       \/ ApologyTyping(c)
       \/ SendAnswer(c)
       \/ CountInc(c)
       \/ FollowupEnter(c)
       \/ FollowupSkip(c)
       \/ FollowupPrompt(c)
       \/ RecvFollowupBlocked(c)
       \/ RecvFollowupEmpty(c)
       \/ RecvFollowupAccept(c)
       \/ ClosingAi(c)
       \/ ClosingClose(c)
       \/ RecvExit(c)
       \/ ExitClose(c)
       \/ RecvUnknown(c)
       \/ UnknownState(c)
       \/ Continue(c)

Spec == Init /\ [][Next]_vars

\* ---------------------------------------------- long histories (ask_gpt)
\* Every handler of a session that passed the quota test of line 1400 before
\* the others counted appends its turns, so the history of a session grows
\* with the number of its connections.  The generation steps are checked
\* from sessions whose history holds up to MaxTurns turns, with both
\* handlers about to dispatch a question (line 1418 sent).
MaxTurns == 11

Turns == {[role |-> "user", content |-> <<"a">>],
          [role |-> "assistant", content |-> <<"r">>]}

Histories == UNION {[1..n -> Turns] : n \in 0..MaxTurns}

InitAsk ==
  /\ NoRegistry
  /\ now = 0
  /\ \E h \in Histories :
       SESSIONS = ("unknown" :> [NewSession(0) EXCEPT !.history = h])
  /\ pc = [c \in Conns |-> "L1418"]
  /\ sidOf = [c \in Conns |-> "unknown"]
  /\ user_text = [c \in Conns |-> <<"a">>]
  /\ answer = [c \in Conns |-> << >>]
  /\ out = [c \in Conns |-> << >>]
  /\ rec = [c \in Conns |-> <<"user_message">>]
  /\ messages = [c \in Conns |-> << >>]

NextAsk ==
  \E c \in Conns :
    \/ GenDispatch(c)
    \/ ask_gpt(c)
    \/ GenReturn(c)
    \/ GenRaise(c)

SpecAsk == InitAsk /\ [][NextAsk]_vars

\* ----------------------------------- Connection Registry (multi-party variant)
\* The registry is not part of src/main.py; it is modelled from section 4.1
\* of the specification: add(conn), remove(conn), broadcast(event), where
\* broadcast iterates a snapshot of the members, attempts delivery to each
\* and removes every member whose delivery fails.  Broadcasts are numbered;
\* the deliveries of one broadcast are separate steps, in any order, between
\* which endpoints join, leave and lose their peer.
MaxBroadcasts == 2

add(e) ==
  /\ e \notin registry
  /\ e \notin closed
  /\ delivered[e] = << >>
  /\ registry' = registry \cup {e}
  /\ UNCHANGED <<corevars, closed, fanout, delivered>>

remove(e) ==
  /\ e \in registry
  /\ registry' = registry \ {e}
  /\ UNCHANGED <<corevars, closed, fanout, delivered>>

\* the peer of a member goes away: every later delivery to it fails
PeerClose(e) ==
  /\ e \in registry
  /\ e \notin closed
  /\ closed' = closed \cup {e}
  /\ UNCHANGED <<corevars, registry, fanout, delivered>>

\* broadcast(event) starts: it takes the snapshot of the members
broadcast ==
  /\ fanout.todo = {}
  /\ fanout.n < MaxBroadcasts
  /\ fanout' = [n |-> fanout.n + 1, snapshot |-> registry, todo |-> registry]
  /\ UNCHANGED <<corevars, registry, closed, delivered>>

\* a delivery that fails ends the broadcast
Deliver_Aborting(e) ==
  /\ e \in fanout.todo
  /\ IF e \in closed
       THEN /\ registry' = registry \ {e}
            /\ fanout' = [fanout EXCEPT !.todo = {}]
            /\ UNCHANGED delivered
       ELSE /\ delivered' = [delivered EXCEPT ![e] = Append(@, fanout.n)]
            /\ fanout' = [fanout EXCEPT !.todo = @ \ {e}]
            /\ UNCHANGED registry
  /\ UNCHANGED <<corevars, closed>>

\* broadcast attempts the delivery to one member of its snapshot: the event
\* is delivered, or the delivery fails and the member is removed
Deliver(e) ==
  /\ e \in fanout.todo
  /\ fanout' = [fanout EXCEPT !.todo = @ \ {e}]
  /\ IF e \in closed
       THEN /\ registry' = registry \ {e}
            /\ UNCHANGED delivered
       ELSE /\ delivered' = [delivered EXCEPT ![e] = Append(@, fanout.n)]
            /\ UNCHANGED registry
  /\ UNCHANGED <<corevars, closed>>

InitRegistry == Init

NextRegistry ==
  \/ broadcast
  \/ \E e \in Endpoints :
       \/ add(e)
       \/ remove(e)
       \/ PeerClose(e)
       \/ Deliver(e)

SpecRegistry == InitRegistry /\ [][NextRegistry]_vars

TypeOK ==
  /\ now \in Instants
  /\ \A c \in Conns : pc[c] # "off" => sidOf[c] \in DOMAIN SESSIONS
  /\ \A sid \in DOMAIN SESSIONS : SESSIONS[sid].phase \in {"qa", "followup", "done"}
  /\ \A c \in Conns : messages[c] # << >> => pc[c] = "L1426"

\* ======================================================================
\* Properties
\* ======================================================================
Phases == {"qa", "followup", "done"}

Rank(p) == CASE p = "qa" -> 0 [] p = "followup" -> 1 [] p = "done" -> 2

SameSession(c, d) ==
  /\ pc[c] # "off"
  /\ pc[d] # "off"
  /\ sidOf[c] = sidOf[d]

\* C1: in every reachable state the question counter of every session is at
\* most MAX_QUESTIONS, whatever the number of connections that use the
\* session identifier.
C1_CounterAtMostMax ==
  \A sid \in DOMAIN SESSIONS : SESSIONS[sid].count <= MAX_QUESTIONS

\* C2: the phase of every session is one of qa, followup, done and no step
\* of any handler, nor of the clock, moves it backward in the order
\* qa < followup < done.
C2_PhaseNeverBackward ==
  [][\A sid \in DOMAIN SESSIONS :
       /\ SESSIONS[sid].phase \in Phases
       /\ sid \in DOMAIN SESSIONS'
       /\ SESSIONS'[sid].phase \in Phases
       /\ Rank(SESSIONS[sid].phase) <= Rank(SESSIONS'[sid].phase)]_vars

\* The case of C2: a handler is suspended after its counter increment, the
\* counter is at the maximum and another handler has ended the session.
C2_Witness ==
  \E c \in Conns :
    /\ pc[c] = "L1451"
    /\ Sess(c).count >= MAX_QUESTIONS
    /\ Sess(c).phase = "done"

\* A handler has accepted a user_message and has not yet sent its reply.
ReplyPending(c) == pc[c] \in {"L1418", "L1426", "L1431", "L1441"}

\* C3: within one session request and reply are serialized: at most one
\* generation call is in flight for a session, and no user_message of the
\* session is accepted while the reply to an earlier one is pending.
C3_RepliesSerialized ==
  \A c, d \in Conns :
    (c # d /\ SameSession(c, d)) => ~(ReplyPending(c) /\ ReplyPending(d))

\* ----------------------------------------------------------------------
\* c is open or was, and no other connection has been opened: c is the only
\* connection of the run.
Alone(c) == pc[c] # "off" /\ \A d \in Conns \ {c} : pc[d] = "off"

StateEv(phase, rq, rs) ==
  [type |-> "state", phase |-> phase, remainingQuestions |-> rq, remainingSeconds |-> rs]

IsState(ev, phase, rq) ==
  /\ ev.type = "state"
  /\ ev.phase = phase
  /\ ev.remainingQuestions = rq

\* The events of an accepted user_message answered by the backend, up to
\* the snapshot that follows the increment of the counter.
AnsweredQuestion(c) ==
  /\ Len(out[c]) >= 4
  /\ out[c][1] = TypingEv(TRUE)
  /\ out[c][2] = TypingEv(FALSE)
  /\ answer[c] \in Answers
  /\ out[c][3] = AiEv(answer[c])
  /\ Sess(c).count \in 1..MAX_QUESTIONS
  /\ IsState(out[c][4], "qa", MAX_QUESTIONS - Sess(c).count)
  /\ Cardinality({i \in 1..Len(out[c]) : out[c][i].type = "ai" /\ out[c][i].text \in Answers}) = 1

\* The parts of the end-to-end run that do not depend on the clock or on
\* the text of the follow-up answer.
C4_Questions ==
  \A c \in Conns :
    Alone(c) =>
      /\ Sess(c).count <= MAX_QUESTIONS
      /\ (pc[c] = "L1451" /\ answer[c] # APOLOGY) =>
           /\ AnsweredQuestion(c)
           /\ Len(out[c]) = 4
           /\ Sess(c).phase = "qa"
      /\ (pc[c] = "L1458" /\ answer[c] # APOLOGY) =>
           /\ AnsweredQuestion(c)
           /\ Len(out[c]) = 6
           /\ Sess(c).count = MAX_QUESTIONS
           /\ Sess(c).phase = "followup"
           /\ IsState(out[c][5], "followup", 0)
           /\ out[c][6] = AiEv(FOLLOWUP_PROMPT)
      /\ pc[c] = "L1482" =>
           /\ Len(out[c]) = 2
           /\ IsState(out[c][1], "done", Max(0, MAX_QUESTIONS - Sess(c).count))
           /\ out[c][2] = AiEv(CLOSING_MSG)
           /\ Sess(c).phase = "done"

C4_Steps ==
  \A c \in Conns :
    Alone(c) =>
      /\ (pc[c] = "L1446" /\ pc'[c] = "L1451") =>
           SESSIONS'[sidOf[c]].count = Sess(c).count + 1
      /\ (pc[c] = "L1451" /\ pc'[c] # pc[c] /\ Sess(c).count = MAX_QUESTIONS) =>
           /\ SESSIONS'[sidOf[c]].phase = "followup"
           /\ pc'[c] \in {"L1457", "end", "raised"}
      /\ (pc[c] = "L1482" /\ pc'[c] # pc[c]) =>
           /\ pc'[c] = "end"
           /\ rec'[c] = << >>

\* The session of c is as get_session created it, but for the clock.
Fresh(c) ==
  /\ Sess(c).count = 0
  /\ Sess(c).phase = "qa"
  /\ Sess(c).history = << >>

\* C4: on a fresh session with one connection, no backend failure and the
\* deadline not reached, hello yields the greeting and
\* state{qa, remainingQuestions 3, remainingSeconds 180}; each of 3
\* non-empty user_message yields exactly one generated reply and a state
\* with remainingQuestions 2, 1, 0; after the 3rd the last snapshot is
\* state{followup, 0}; a followup_answer then yields state{done}, the
\* closing message, and the server closes the connection.
C4_EndToEnd ==
  /\ [](/\ C4_Questions
        /\ \A c \in Conns :
             (Alone(c) /\ pc[c] = "L1388" /\ Fresh(c)) =>
               out[c] = <<AiEv(GREETING),
                          StateEv("qa", MAX_QUESTIONS, TIME_LIMIT_SECONDS)>>)
  /\ [][C4_Steps]_vars

\* ----------------------------------------------------------------------
\* The deadline of the session of c (start_ts + time limit) has elapsed.
DeadlineElapsed(c) == now - Sess(c).start_ts >= LimitTicks

\* The handler of c took this step, and not because its peer had gone.
Acted(c) == pc'[c] # pc[c] /\ rec'[c] # <<"disconnect">> /\ pc'[c] # "raised"

\* C5: once the deadline of a session has elapsed, the next inbound message
\* of any type is not processed as its own type: the phase becomes done, a
\* state snapshot with phase done and the terminal notice are sent, and the
\* server closes the connection, whatever quota remains.
C5_DeadlineForcesDone ==
  /\ [](\A c \in Conns :
          (pc[c] = "L1373" /\ DeadlineElapsed(c)) =>
            /\ Len(out[c]) = 2
            /\ IsState(out[c][1], "done", Max(0, MAX_QUESTIONS - Sess(c).count))
            /\ out[c][2] = AiEv(TIME_OVER_MSG))
  /\ [][\A c \in Conns :
          /\ (Receiving(c) /\ DeadlineElapsed(c) /\ Acted(c)) =>
               /\ pc'[c] = "L1372"
               /\ SESSIONS'[sidOf[c]].phase = "done"
          /\ (pc[c] = "L1373" /\ DeadlineElapsed(c) /\ Acted(c)) =>
               pc'[c] = "end"]_vars

\* ----------------------------------------------------------------------
\* The handler of c is done with the frame it received: it goes back to
\* receive_text, or it closes, or it ends on an exception raised by the
\* frame itself.
ProcessingEnds(c) ==
  \/ /\ pc[c] \notin {"off", "end", "L1360"}
     /\ pc'[c] \in {"L1360", "end"}
     /\ rec'[c] # <<"disconnect">>
  \/ /\ Receiving(c)
     /\ pc'[c] = "end"
     /\ rec'[c] = <<"error">>

Snapshots(c) == {i \in 1..Len(out[c]) : out[c][i].type = "state"}

LastSnapshot(c) ==
  out[c][CHOOSE i \in Snapshots(c) : \A j \in Snapshots(c) : j <= i]

\* C6: the processing of every inbound message, in every branch, sends at
\* least one state snapshot, and the last one sent carries the phase and
\* the remaining quota of the session as they are when the processing ends.
C6_FreshSnapshot ==
  [][\A c \in Conns :
       ProcessingEnds(c) =>
         /\ Snapshots(c) # {}
         /\ IsState(LastSnapshot(c), Sess(c).phase,
                    Max(0, MAX_QUESTIONS - Sess(c).count))]_vars

\* ----------------------------------------------------------------------
\* C7: a user_message when the phase is not qa, and a followup_answer when
\* the phase is not followup, are rejected with an ai notice followed by a
\* state snapshot; count, phase and history stay as they are, no generation
\* call is dispatched and the connection stays open.
C7_PhaseViolationRejected ==
  /\ [](\A c \in Conns :
          pc[c] \in {"L1397", "L1466"} =>
            /\ Len(out[c]) = 2
            /\ out[c][1].type = "ai"
            /\ IsState(out[c][2], Sess(c).phase,
                       Max(0, MAX_QUESTIONS - Sess(c).count)))
  /\ [][\A c \in Conns :
          /\ (/\ Receiving(c)
              /\ pc'[c] \in {"L1393", "L1466"}) => SESSIONS' = SESSIONS
          /\ (/\ pc[c] \in {"L1393", "L1397", "L1466"}
              /\ Acted(c)) =>
               /\ SESSIONS' = SESSIONS
               /\ pc'[c] \in {"L1397", "L1360"}]_vars

\* ----------------------------------------------------------------------
\* The branches of a user_message.
UserBranches == {"L1393", "L1403", "L1412", "L1418"}

\* C8: a user_message processed while the session is in qa with the counter
\* already at the maximum forces qa -> followup before anything else: a
\* state snapshot and the transition prompt are sent, no generation call is
\* dispatched, the counter is not incremented, and the loop continues.
C8_QuotaForcesFollowup ==
  /\ [](\A c \in Conns :
          pc[c] = "L1404" =>
            /\ Len(out[c]) = 2
            /\ out[c][1].type = "state"
            /\ out[c][1].phase = "followup"
            /\ out[c][2] = AiEv(LIMIT_MSG)
            /\ Sess(c).phase # "qa")
  /\ [][\A c \in Conns :
          /\ (/\ Receiving(c)
              /\ Sess(c).phase = "qa"
              /\ Sess(c).count >= MAX_QUESTIONS
              /\ pc'[c] \in UserBranches) =>
               /\ pc'[c] = "L1403"
               /\ SESSIONS'[sidOf[c]] = [Sess(c) EXCEPT !.phase = "followup"]
          /\ (pc[c] \in {"L1403", "L1404"} /\ Acted(c)) =>
               /\ SESSIONS' = SESSIONS
               /\ pc'[c] = IF pc[c] = "L1403" THEN "L1404" ELSE "L1360"]_vars

\* A user_message met the counter at the maximum in qa and was answered
\* with the snapshot and the prompt.
C8_Witness ==
  \E c \in Conns :
    /\ pc[c] = "L1404"
    /\ Sess(c).count >= MAX_QUESTIONS
    /\ Sess(c).phase = "followup"

\* ----------------------------------------------------------------------
\* The handler of c took this step and no exception was raised in it.
Completed(c) == Acted(c) /\ rec'[c] # <<"error">>

\* The handler of c substituted the apology for the reply of the backend.
Apologised(c) ==
  /\ pc[c] \in {"L1446", "L1451", "L1457", "L1458"}
  /\ answer[c] = APOLOGY

\* C9: when the backend call of an accepted user_message fails, the apology
\* is sent as the ai reply, a backend-failure event is recorded, and the
\* bookkeeping is that of a successful reply: the counter goes up by one
\* and, if it reaches the maximum, the session moves to followup with the
\* transition prompt.
C9_FailureStillCounts ==
  /\ [](\A c \in Conns :
          /\ pc[c] = "L1431" => rec[c] = <<"user_message", "gpt_error">>
          /\ Apologised(c) =>
               /\ \E i \in 1..Len(rec[c]) : rec[c][i] = "gpt_error"
               /\ Len(out[c]) >= 4
               /\ out[c][4] = AiEv(APOLOGY)
               /\ \A i \in 1..Len(out[c]) :
                    out[c][i].type = "ai" => out[c][i].text \notin Answers
          /\ (Apologised(c) /\ pc[c] = "L1458") =>
               /\ out[c][Len(out[c])] = AiEv(FOLLOWUP_PROMPT)
               /\ Sess(c).phase # "qa")
  /\ [][\A c \in Conns :
          /\ (pc[c] = "L1446" /\ Completed(c)) =>
               /\ pc'[c] = "L1451"
               /\ SESSIONS'[sidOf[c]] = [Sess(c) EXCEPT !.count = @ + 1]
          /\ (/\ pc[c] = "L1451"
              /\ Completed(c)
              /\ Sess(c).phase = "qa"
              /\ Sess(c).count >= MAX_QUESTIONS) =>
               /\ pc'[c] = "L1457"
               /\ SESSIONS'[sidOf[c]] = [Sess(c) EXCEPT !.phase = "followup"]]_vars

\* The backend failed on the question that used the last of the quota: the
\* apology was sent, and the session went to followup with the prompt.
C9_Witness ==
  \E c \in Conns :
    /\ Apologised(c)
    /\ pc[c] = "L1458"
    /\ Sess(c).count = MAX_QUESTIONS
    /\ Sess(c).phase = "followup"

\* ----------------------------------------------------------------------
\* C10: if the connection closes while its generation call is in flight,
\* then when the result arrives the handler ends and the result is
\* discarded: the count, the phase and the history of the session stay as
\* they were while the call was in flight.
C10_ResultDiscarded ==
  [][\A c \in Conns :
       (pc[c] = "L1426" /\ pc'[c] = "end") =>
         /\ rec'[c] \in {<<"disconnect">>, <<"error">>}
         /\ SESSIONS'[sidOf[c]].count = Sess(c).count
         /\ SESSIONS'[sidOf[c]].phase = Sess(c).phase
         /\ SESSIONS'[sidOf[c]].history = Sess(c).history]_vars

\* ----------------------------------------------------------------------
\* The handler of c has sent the ai reply of an accepted user_message.
Replied(c) == pc[c] \in {"L1446", "L1451", "L1457", "L1458"}

\* C11: for every accepted user_message, typing:true is sent before the
\* generation call is dispatched, and typing:false is sent after the call
\* completes, whether it succeeded or failed, and before the ai reply.
C11_TypingBrackets ==
  /\ [](\A c \in Conns :
          /\ pc[c] \in {"L1418", "L1426"} =>
               out[c] = <<[type |-> "typing", on |-> TRUE]>>
          /\ Replied(c) =>
               /\ Len(out[c]) >= 3
               /\ out[c][1] = [type |-> "typing", on |-> TRUE]
               /\ \E k \in 3..Len(out[c]) :
                    /\ out[c][k] = [type |-> "ai", text |-> answer[c]]
                    /\ \A i \in 2..(k - 1) :
                         out[c][i] = [type |-> "typing", on |-> FALSE])
  /\ [][\A c \in Conns :
          \* the call is dispatched from the typing:true send, nowhere else
          /\ pc'[c] = "L1426" /\ pc[c] # "L1426" => pc[c] = "L1418"
          \* and its completion is followed by typing:false
          /\ (pc[c] = "L1426" /\ Completed(c)) =>
               /\ pc'[c] \in {"L1431", "L1441"}
               /\ out'[c] = <<[type |-> "typing", on |-> TRUE],
                              [type |-> "typing", on |-> FALSE]>>]_vars

\* One handler has sent a generated reply and another one the apology.
C11_Witness ==
  \E c, d \in Conns :
    /\ pc[c] = "L1446"
    /\ answer[c] \in Answers
    /\ pc[d] = "L1446"
    /\ answer[d] = APOLOGY

\* ----------------------------------------------------------------------
\* Frames that json.loads rejects.
MalformedFrames == {f \in Frames : f.kind = "malformed"}

\* What the handler does with a frame it took for an unrecognized request.
UnknownBranch ==
  /\ [](\A c \in Conns :
          /\ pc[c] = "L1498" => out[c] = <<AiEv(UNKNOWN_MSG)>>
          /\ pc[c] = "L1502" =>
               /\ Len(out[c]) = 2
               /\ out[c][1] = AiEv(UNKNOWN_MSG)
               /\ out[c][2].type = "state")
  /\ [][\A c \in Conns :
          /\ pc'[c] = "L1498" /\ pc[c] # "L1498" =>
               /\ Receiving(c)
               /\ SESSIONS' = SESSIONS
          /\ (pc[c] \in {"L1498", "L1502"} /\ Acted(c)) =>
               /\ SESSIONS' = SESSIONS
               /\ pc'[c] = IF pc[c] = "L1498" THEN "L1502" ELSE "L1360"
          \* the snapshot is that of the session when it is sent
          /\ (pc[c] = "L1498" /\ Acted(c)) =>
               IsState(out'[c][2], Sess(c).phase,
                       Max(0, MAX_QUESTIONS - Sess(c).count))]_vars

\* C12 as stated: a frame that fails to parse never terminates the
\* connection: whenever it is received it becomes the fallback envelope,
\* is answered with the generic rejection and a state snapshot, leaves the
\* session unchanged, and the loop goes on to the next frame.
C12_MalformedNeverFatal ==
  /\ [](\A c \in Conns : \A f \in MalformedFrames :
          Receiving(c) => Dispatched(c, f, {"unknown"} \ KnownTags))
  /\ UnknownBranch

\* C12 amended: a frame that fails to parse, received while the deadline
\* check of line 1369 does not fire, becomes the fallback envelope, is
\* answered with the generic rejection and a state snapshot, leaves the
\* session unchanged, and the loop goes on to the next frame; received when
\* the deadline check fires it is answered as any frame is then, with the
\* time-over notice and the close of the connection.
C12_MalformedNonFatalBeforeDeadline ==
  /\ [](\A c \in Conns : \A f \in MalformedFrames :
          Receiving(c) =>
            /\ Parse(f) = [kind |-> "object", type |-> "unknown", text |-> << >>]
            /\ ~TimeOver(Sess(c), now) => Dispatched(c, f, {"unknown"} \ KnownTags)
            /\ TimeOver(Sess(c), now) => ~Dispatched(c, f, {"unknown"}))
  /\ UnknownBranch

\* The fallback envelope was answered with the rejection and the snapshot.
C12_Witness ==
  \E c \in Conns :
    /\ pc[c] = "L1502"
    /\ rec[c] = <<"unknown_input", "unknown">>

\* ----------------------------------------------------------------------
\* The handler of c is in its dispatch loop.
Live(c) == pc[c] \notin {"off", "end", "raised"}

\* A step that the handler of c takes only when a call of the recorder
\* raised: at connect (line 1348), or while a frame is being answered.
RecorderAborts(c) ==
  \/ pc[c] = "off" /\ pc'[c] = "raised"
  \/ /\ Live(c)
     /\ ~Receiving(c)
     /\ pc'[c] = "end"
     /\ rec'[c] = <<"error">>

\* C13: a failure of the recorder (log_event or log_followup raising) at
\* any recording point never aborts the conversation: the dispatch loop
\* keeps running, the connection stays open and the message being
\* processed is completed.
C13_RecorderNonFatal ==
  [][\A c \in Conns : ~RecorderAborts(c)]_vars

\* ----------------------------------------------------------------------
\* C14: DONE is terminal: once the phase of a session is done, no later
\* event (an inbound message on any connection of the session, or the
\* completion of a generation call) changes its count, phase or history,
\* and no generation call is dispatched for it.
C14_DoneTerminal ==
  [][/\ \A sid \in DOMAIN SESSIONS :
          SESSIONS[sid].phase = "done" => SESSIONS'[sid] = SESSIONS[sid]
     /\ \A c \in Conns :
          (pc'[c] = "L1426" /\ pc[c] # "L1426") => Sess(c).phase # "done"]_vars

\* ----------------------------------------------------------------------
\* The handler of c has accepted a follow-up answer.
FollowupAccepted(c) == pc[c] \in {"L1480", "L1482"}

\* C15: in followup, a non-empty followup_answer is recorded, moves the
\* session to done, yields state{done} and the closing message, and the
\* server closes the connection; in the whole life of a session at most one
\* follow-up answer is accepted and recorded, also when several connections
\* use the session: an answer is accepted only in followup, accepting it
\* leaves followup at once, and followup is never entered again.
C15_FollowupOnce ==
  /\ [](\A c \in Conns :
          FollowupAccepted(c) =>
            /\ Sess(c).phase = "done"
            /\ \A d \in Conns \ {c} :
                 SameSession(c, d) => ~FollowupAccepted(d))
  /\ [][/\ \A sid \in DOMAIN SESSIONS :
             SESSIONS[sid].phase = "done" => SESSIONS'[sid].phase = "done"
        /\ \A c \in Conns :
             /\ (pc'[c] = "L1480" /\ pc[c] # "L1480") =>
                  /\ Receiving(c)
                  /\ Sess(c).phase = "followup"
                  /\ SESSIONS'[sidOf[c]] = [Sess(c) EXCEPT !.phase = "done"]
                  /\ rec'[c] = <<"followup_answer", "followup_csv", "done">>
                  /\ user_text'[c] # << >>
                  /\ Len(out'[c]) = 1
                  /\ IsState(out'[c][1], "done", Max(0, MAX_QUESTIONS - Sess(c).count))
             /\ (pc[c] = "L1480" /\ Acted(c)) =>
                  /\ pc'[c] = "L1482"
                  /\ out'[c] = Append(out[c], AiEv(CLOSING_MSG))
                  /\ SESSIONS' = SESSIONS
             /\ (pc[c] = "L1482" /\ Acted(c)) =>
                  /\ pc'[c] = "end"
                  /\ rec'[c] = << >>
                  /\ SESSIONS' = SESSIONS]_vars

\* An answer was accepted on one connection, and the follow-up answer sent
\* after it on another connection of the session was turned down.
C15_Witness ==
  \E c, d \in Conns :
    /\ c # d
    /\ SameSession(c, d)
    /\ pc[c] = "L1482"
    /\ pc[d] = "L1466"
    /\ out[d][1].phase = "done"

\* ----------------------------------------------------------------------
ExitFrames == {f \in Frames : f.kind = "object" /\ f.type = "exit"}

\* C16: an exit request received in any phase sets the phase to done, sends
\* a state snapshot with phase done, closes the connection from the server
\* side and ends the dispatch loop of that connection.  (When the deadline
\* check fires first, the deadline branch does the same and adds its
\* notice.)
C16_ExitEndsSession ==
  /\ [](\A c \in Conns : \A f \in ExitFrames :
          Receiving(c) =>
            \/ Dispatched(c, f, {"exit"})
            \/ remaining_time(Sess(c), now) <= 0 /\ Sess(c).phase # "done")
  /\ [][\A c \in Conns :
          /\ (pc'[c] \in {"L1492", "L1372"} /\ pc[c] # pc'[c]) =>
               /\ Receiving(c)
               /\ SESSIONS'[sidOf[c]] = [Sess(c) EXCEPT !.phase = "done"]
               /\ Len(out'[c]) = 1
               /\ IsState(out'[c][1], "done", Max(0, MAX_QUESTIONS - Sess(c).count))
               /\ pc'[c] = "L1372" <=> remaining_time(Sess(c), now) <= 0 /\ Sess(c).phase # "done"
               /\ pc'[c] = "L1492" => rec'[c] = <<"exit">>
          /\ (pc[c] \in {"L1492", "L1373"} /\ Acted(c)) =>
               /\ pc'[c] = "end"
               /\ rec'[c] = << >>
               /\ SESSIONS' = SESSIONS
          /\ (pc[c] = "L1372" /\ Acted(c)) =>
               /\ pc'[c] = "L1373"
               /\ SESSIONS' = SESSIONS]_vars

\* exit was received with the quota used, and answered with the snapshot
C16_Witness ==
  \E c \in Conns :
    /\ pc[c] = "L1492"
    /\ rec[c] = <<"exit">>
    /\ Sess(c).count = MAX_QUESTIONS
    /\ Sess(c).phase = "done"

\* ----------------------------------------------------------------------
\* C17: each connection maps 1:1 to a session: at no time are two live
\* connections bound to the same session record.
C17_OneConnectionPerSession ==
  \A c, d \in Conns :
    (c # d /\ Live(c) /\ Live(d)) => sidOf[c] # sidOf[d]

\* ----------------------------------------------------------------------
\* C18: a handler is never suspended in the middle of a session update: the
\* increment of the counter that reaches the maximum and the qa -> followup
\* transition take effect with no suspension point between them, so that
\* at no suspension point a session has phase qa and its count at the
\* maximum.
C18_NoSuspensionInUpdate ==
  \A sid \in DOMAIN SESSIONS :
    ~(SESSIONS[sid].phase = "qa" /\ SESSIONS[sid].count >= MAX_QUESTIONS)

\* ----------------------------------------------------------------------
\* An exception ended this step of the handler of c.
Failed(c) ==
  /\ Live(c)
  /\ \/ pc'[c] = "raised"
     \/ pc'[c] = "end" /\ rec'[c] \in {<<"error">>, <<"disconnect">>}

\* C19: every failure raised inside the dispatch loop of a connection is
\* caught at the boundary of the loop and converted into a user-visible
\* message plus a recorder entry; it never escapes the handler and changes
\* neither another session nor the loop of another connection.
C19_FailuresContained ==
  [][\A c \in Conns :
       Failed(c) =>
         /\ pc'[c] = "end"
         /\ rec'[c] # << >>
         \* a message for the user, where the connection is still there
         /\ rec'[c] = <<"error">> =>
              \E i \in 1..Len(out'[c]) : out'[c][i].type = "ai"
         /\ \A d \in Conns \ {c} : pc'[d] = pc[d] /\ out'[d] = out[d]
         /\ \A sid \in DOMAIN SESSIONS \ {sidOf[c]} :
              SESSIONS'[sid] = SESSIONS[sid]]_vars

\* ----------------------------------------------------------------------
\* Frames with a tag that the dispatch does not know.
UnknownFrames == {f \in Frames : f.kind = "object" /\ f.type \notin KnownTags}

\* What is asked of every request with an unrecognized tag: the fixed
\* rejection, then a snapshot, and the session record as it was.
UnknownRejected ==
  [][\A c \in Conns :
       /\ (pc'[c] = "L1498" /\ pc[c] # "L1498") =>
            /\ Receiving(c)
            /\ out'[c] = <<AiEv(UNKNOWN_MSG)>>
            /\ SESSIONS' = SESSIONS
       /\ (pc[c] = "L1498" /\ Acted(c)) =>
            /\ pc'[c] = "L1502"
            /\ out'[c] = <<AiEv(UNKNOWN_MSG), send_state(Sess(c), now)>>
            /\ SESSIONS' = SESSIONS
       /\ (pc[c] = "L1502" /\ Acted(c)) =>
            /\ pc'[c] = "L1360"
            /\ SESSIONS' = SESSIONS]_vars

\* C20 as stated: a question with an unknown id, or any message with an
\* unrecognized tag, sent any number of times in any phase, yields each
\* time the same fixed rejection followed by a state snapshot, and leaves
\* count, phase, history and start timestamp unchanged.
C20_UnknownIdempotent ==
  /\ [](\A c \in Conns : \A f \in UnknownFrames :
          Receiving(c) => Dispatched(c, f, {f.type}))
  /\ UnknownRejected

\* C20 amended: as C20, for requests received while the session has time
\* left or is already done; a request received when the time is used up
\* and the phase is not done is answered by the deadline branch, which sets
\* the phase to done.
C20_UnknownIdempotentInTime ==
  /\ [](\A c \in Conns : \A f \in UnknownFrames :
          Receiving(c) =>
            /\ (remaining_time(Sess(c), now) > 0 \/ Sess(c).phase = "done")
                 => Dispatched(c, f, {f.type})
            /\ (remaining_time(Sess(c), now) <= 0 /\ Sess(c).phase # "done")
                 => ~Dispatched(c, f, {f.type}))
  /\ UnknownRejected

\* Two question requests in one session, both answered with the rejection
\* and a snapshot, in a phase other than qa.
C20_Witness ==
  \E c, d \in Conns :
    /\ c # d
    /\ SameSession(c, d)
    /\ pc[c] = "L1502"
    /\ rec[c] = <<"unknown_input", "question">>
    /\ pc[d] = "L1502"
    /\ rec[d] = <<"unknown_input", "question">>
    /\ out[c] = out[d]
    /\ Sess(c).phase = "followup"

\* ----------------------------------------------------------------- C21
\* the history portion of a request: what lies between the two system
\* messages and the final user message
Portion(m) == SubSeq(m, 3, Len(m) - 1)

Min(a, b) == IF a <= b THEN a ELSE b

\* the last n turns of a history
Recent(h, n) == SubSeq(h, Len(h) - n + 1, Len(h))

\* C21: a handler appends the user's text to the history when it dispatches
\* the generation and the generated reply when the generation succeeds, in
\* that order and nothing else, and the history portion of every request
\* sent to the backend is its most recent turns, at most 10 of them.
C21_HistoryGrowth ==
  [][\A c \in Conns :
       LET h  == Sess(c).history
           h2 == SESSIONS'[sidOf[c]].history
       IN /\ pc[c] = "L1418" /\ pc'[c] = "L1426"
               => h2 = Append(h, [role |-> "user", content |-> user_text[c]])
          /\ pc[c] = "L1426" /\ pc'[c] = "L1441"
               => /\ answer'[c] \in Answers
                  /\ h2 = Append(h, [role |-> "assistant", content |-> answer'[c]])
                  /\ \E i \in 1..Len(h) :
                       h[i] = [role |-> "user", content |-> user_text[c]]
          /\ pc[c] = "L1426" /\ pc'[c] = "L1431" => h2 = h
          /\ messages[c] = << >> /\ messages'[c] # << >>
               => /\ Len(Portion(messages'[c])) = Min(Len(h), 10)
                  /\ Portion(messages'[c]) = Recent(h, Min(Len(h), 10))
     ]_vars

\* a request in flight that carries ten turns of a longer history, beside a
\* handler whose generation succeeded and whose reply closes the history
C21_Witness ==
  \E c, d \in Conns :
    /\ messages[c] # << >>
    /\ Len(Portion(messages[c])) = 10
    /\ Len(Sess(c).history) > 10
    /\ pc[d] = "L1441"
    /\ answer[d] \in Answers
    /\ Sess(d).history[Len(Sess(d).history)] = [role |-> "assistant", content |-> answer[d]]

\* ----------------------------------------------------------------- C22
\* C22: get_session makes a session (QA, count 0, start now, empty history)
\* for an id the store does not hold and leaves the store as it is for an
\* id it holds, and the hello branch changes no session: neither a
\* reconnect nor a repeated hello resets the quota or the deadline.
C22_SessionKept ==
  [][\A c \in Conns :
       /\ pc[c] = "off" /\ pc'[c] # "off"
            => IF sidOf'[c] \in DOMAIN SESSIONS
                 THEN SESSIONS' = SESSIONS
                 ELSE /\ DOMAIN SESSIONS' = DOMAIN SESSIONS \cup {sidOf'[c]}
                      /\ \A sid \in DOMAIN SESSIONS : SESSIONS'[sid] = SESSIONS[sid]
                      /\ SESSIONS'[sidOf'[c]] =
                           [start_ts |-> now, count |-> 0, phase |-> "qa",
                            history |-> << >>]
       /\ \/ pc[c] = "L1360" /\ pc'[c] = "L1387"
          \/ pc[c] = "L1387" /\ pc'[c] = "L1388"
            => SESSIONS' = SESSIONS
     ]_vars

\* a second connection of a session that has counted questions and used up
\* time, after the first one ended, has had its hello answered
C22_Witness ==
  \E c, d \in Conns :
    /\ pc[d] = "end"
    /\ pc[c] = "L1388"
    /\ Sess(c).count > 0
    /\ now > Sess(c).start_ts
    /\ out[c][Len(out[c])].remainingQuestions = 3 - Sess(c).count

\* ----------------------------------------------------------------- C23
\* C23: the remainingSeconds of every state snapshot equals
\* max(0, limit - (now - start)) of its session, is never negative and never
\* above the limit.
C23_RemainingTime ==
  [][\A c \in Conns :
       (/\ Len(out'[c]) = Len(out[c]) + 1
        /\ out'[c][Len(out'[c])].type = "state")
         => LET rs == out'[c][Len(out'[c])].remainingSeconds
                s  == SESSIONS'[sidOf[c]]
            IN /\ rs * TicksPerSecond = Max(0, LimitTicks - (now - s.start_ts))
               /\ rs >= 0
               /\ rs <= TIME_LIMIT_SECONDS
     ]_vars

\* ----------------------------------------------------------------- C24
\* the handler of c called the recorder with event e in this step
Logged(c, e) == \E i \in 1..Len(rec'[c]) : rec'[c][i] = e

\* the handler of c ends in this step otherwise than by the break that
\* follows its own ws.close()
Dropped(c) ==
  /\ pc[c] \notin {"off", "end", "raised", "L1373", "L1482", "L1492"}
  /\ pc'[c] = "end"

\* C24: every connect, every disconnect, every accepted message, every
\* increment of the counter, every change of phase and every failure of
\* the backend is recorded, and the recorder is called for an increment
\* and for a change of phase in the step that makes it, before the handler
\* is suspended again.
C24_Recorded ==
  [][\A c \in Conns :
       /\ pc[c] = "off" /\ pc'[c] = "L1360" => rec'[c] = <<"connect">>
       /\ Dropped(c) => rec'[c] \in {<<"disconnect">>, <<"error">>}
       /\ pc[c] # "off" /\ Completed(c) =>
            LET s  == Sess(c)
                s2 == SESSIONS'[sidOf[c]]
            IN /\ pc[c] = "L1360" /\ pc'[c] = "L1418" => Logged(c, "user_message")
               /\ pc[c] = "L1360" /\ pc'[c] = "L1480" => Logged(c, "followup_answer")
               /\ pc[c] = "L1426" /\ pc'[c] = "L1431" => Logged(c, "gpt_error")
               /\ s2.count # s.count => Logged(c, "count_inc")
               /\ s2.phase # s.phase /\ s2.phase = "followup"
                    => \/ Logged(c, "enter_followup")
                       \/ Logged(c, "blocked_message_limit")
               /\ s2.phase # s.phase /\ s2.phase = "done"
                    => \/ Logged(c, "time_over")
                       \/ Logged(c, "done")
                       \/ Logged(c, "exit")
     ]_vars

\* the third reply was counted and the follow-up phase entered, both on
\* record for the message being processed
C24_Witness ==
  \E c \in Conns :
    /\ pc[c] = "L1457"
    /\ Sess(c).count = MAX_QUESTIONS
    /\ Sess(c).phase = "followup"
    /\ rec[c] = <<"user_message", "count_inc", "enter_followup">>

\* ----------------------------------------------------------------- C25
\* endpoint e received broadcast n
Got(e, n) == \E i \in 1..Len(delivered[e]) : delivered[e][i] = n

\* C25: broadcast attempts delivery to every member of the snapshot it
\* took of the registry; a member whose delivery fails is removed, the
\* failure does not keep the broadcast from the remaining members, and
\* nothing is delivered to an endpoint whose peer has gone, which is out of
\* the registry (one member less) from its failed delivery on.
C25_Broadcast ==
  /\ [](\A e \in (fanout.snapshot \cap registry) \ fanout.todo : Got(e, fanout.n))
  /\ [][/\ fanout'.n # fanout.n =>
            /\ fanout'.snapshot = registry
            /\ fanout'.todo = registry
        /\ \A e \in Endpoints :
             /\ delivered'[e] # delivered[e] =>
                  /\ e \in fanout.todo
                  /\ e \notin closed
                  /\ delivered'[e] = Append(delivered[e], fanout.n)
             /\ e \in fanout.todo /\ e \notin fanout'.todo =>
                  /\ fanout'.todo = fanout.todo \ {e}
                  /\ e \in closed =>
                       /\ delivered'[e] = delivered[e]
                       /\ registry' = registry \ {e}
                       /\ e \in registry =>
                            Cardinality(registry') = Cardinality(registry) - 1
                  /\ e \notin closed => registry' = registry
       ]_vars

\* three members received the first broadcast; one lost its peer and the
\* second broadcast, complete, reached the other two and left two members
C25_Witness ==
  \E e \in Endpoints :
    /\ fanout = [n |-> 2, snapshot |-> Endpoints, todo |-> {}]
    /\ e \in closed
    /\ delivered[e] = <<1>>
    /\ registry = Endpoints \ {e}
    /\ \A f \in registry : f \notin closed /\ delivered[f] = <<1, 2>>

\* ----------------------------------------------------------------- C26
\* C26: a session in the follow-up phase has its counter at or above the
\* maximum: the follow-up phase is not entered before the quota is used.
C26_FollowupAfterQuota ==
  \A sid \in DOMAIN SESSIONS :
    SESSIONS[sid].phase = "followup" => SESSIONS[sid].count >= 3

\* a session put in the follow-up phase by the third counted reply
C26_Witness ==
  \E c \in Conns :
    /\ pc[c] = "L1457"
    /\ Sess(c).phase = "followup"
    /\ Sess(c).count = 3
    /\ out[c][Len(out[c])] = send_state(Sess(c), now)

\* ----------------------------------------------------------------- C27
\* C27: a handler increments the counter only once its ai reply has been
\* sent, after typing:false; when the send of typing:false or of the ai
\* reply fails, the handler ends with the counter and the phase as they
\* were.
C27_CountAfterDelivery ==
  [][\A c \in Conns :
       (pc[c] # "off" /\ pc'[c] # pc[c]) =>
         LET s  == Sess(c)
             s2 == SESSIONS'[sidOf[c]]
             n  == Len(out[c])
         IN /\ s2.count # s.count =>
                 /\ pc[c] = "L1446"
                 /\ n >= 2
                 /\ out[c][n] = AiEv(answer[c])
                 /\ out[c][n - 1] = TypingEv(FALSE)
            /\ (pc[c] \in {"L1426", "L1431", "L1441"}
                 /\ pc'[c] \in {"end", "raised"}) =>
                 /\ s2.count = s.count
                 /\ s2.phase = s.phase
     ]_vars

\* two replies were generated for a session: the send of one failed and
\* its handler ended, the other was sent and counted
C27_Witness ==
  \E c, d \in Conns :
    /\ pc[d] = "end"
    /\ rec[d] = <<"disconnect">>
    /\ pc[c] = "L1451"
    /\ Len(Sess(c).history) = 4
    /\ Sess(c).count = 1

\* ----------------------------------------------------------------- C28
\* Frames of tag t whose text is empty or holds white space only.
EmptyFrames(t) ==
  {f \in Frames : f.kind = "object" /\ f.type = t /\ Strip(f.text) = << >>}

\* the frame f, received now by c, is taken by the branch of lines 1410-1413
UserEmptyBranch(c, f) ==
  /\ Dispatched(c, f, {"user_message"})
  /\ Sess(c).phase = "qa"
  /\ ~QuotaUsed(Sess(c))
  /\ UserText(Parse(f)) = << >>

\* the frame f, received now by c, is taken by the branch of lines 1469-1472
FollowupEmptyBranch(c, f) ==
  /\ Dispatched(c, f, {"followup_answer"})
  /\ Sess(c).phase = "followup"
  /\ FollowupText(Parse(f)) = << >>

\* What is asked of the two branches: one state snapshot is the whole
\* response, nothing is recorded, no generation is dispatched and the
\* session stays as it was.
EmptyConsumesNothing ==
  [][\A c \in Conns :
       /\ (pc'[c] \in {"L1412", "L1471"} /\ pc'[c] # pc[c]) =>
            /\ Receiving(c)
            /\ out'[c] = <<send_state(Sess(c), now)>>
            /\ rec'[c] = << >>
            /\ messages' = messages
            /\ SESSIONS' = SESSIONS
       /\ (pc[c] \in {"L1412", "L1471"} /\ pc'[c] # pc[c]) =>
            /\ pc'[c] = "L1360"
            /\ out'[c] = << >>
            /\ messages' = messages
            /\ SESSIONS' = SESSIONS]_vars

\* C28 as stated: a user_message in QA or a followup_answer in FOLLOWUP
\* whose text is empty or white space only consumes nothing: no generation
\* call, no typing or ai event, count, phase and history unchanged, nothing
\* written to the follow-up record, exactly one state snapshot in response.
C28_EmptyConsumesNothing ==
  /\ [](\A c \in Conns :
          Receiving(c) =>
            /\ Sess(c).phase = "qa" =>
                 \A f \in EmptyFrames("user_message") : UserEmptyBranch(c, f)
            /\ Sess(c).phase = "followup" =>
                 \A f \in EmptyFrames("followup_answer") : FollowupEmptyBranch(c, f))
  /\ EmptyConsumesNothing

\* C28 amended: as C28, for a message received while the session has time
\* left and, for a user_message, has questions left.
C28_EmptyConsumesNothingInTime ==
  /\ [](\A c \in Conns :
          Receiving(c) =>
            /\ Sess(c).phase = "qa" =>
                 \A f \in EmptyFrames("user_message") :
                   UserEmptyBranch(c, f)
                     <=> (remaining_time(Sess(c), now) > 0 /\ Sess(c).count < 3)
            /\ Sess(c).phase = "followup" =>
                 \A f \in EmptyFrames("followup_answer") :
                   FollowupEmptyBranch(c, f) <=> remaining_time(Sess(c), now) > 0)
  /\ EmptyConsumesNothing

\* an empty user_message answered in the question phase and an empty
\* follow-up answer answered in the follow-up phase, each with one snapshot
C28_Witness ==
  \E c, d \in Conns :
    /\ pc[d] = "L1412"
    /\ Len(out[d]) = 1
    /\ out[d][1].type = "state"
    /\ out[d][1].phase = "qa"
    /\ pc[c] = "L1471"
    /\ out[c] = <<send_state(Sess(c), now)>>
    /\ Sess(c).phase = "followup"
    /\ rec[c] = << >>

\* ----------------------------------------------------------------- C29
\* C29: the dispatch loop of a connection ends only because the deadline
\* has elapsed, a follow-up answer was accepted, an exit request was
\* received, or the transport failed or the peer disconnected; no other
\* content of a frame ends it.
C29_LoopEndsOnlyFor ==
  [][\A c \in Conns :
       (pc[c] \notin {"off", "end", "raised"} /\ pc'[c] = "end")
         => \/ pc[c] \in {"L1373", "L1482", "L1492"}
            \/ rec'[c] = <<"disconnect">>
     ]_vars

\* ----------------------------------------------------------------- C30
\* a history made of (user turn, assistant turn) pairs
Paired(h) ==
  /\ Len(h) % 2 = 0
  /\ \A i \in 1..Len(h) :
       h[i].role = IF i % 2 = 1 THEN "user" ELSE "assistant"

\* a generation call is in flight for the session sid
InFlight(sid) == \E c \in Conns : pc[c] = "L1426" /\ sidOf[c] = sid

\* C30: whenever no generation call is in flight for a session, its
\* history is a sequence of complete (user turn, assistant turn) pairs.
C30_HistoryPaired ==
  \A sid \in DOMAIN SESSIONS :
    ~InFlight(sid) => Paired(SESSIONS[sid].history)

\* ----------------------------------------------------------------- C31
\* a history without its last turn
Earlier(h) == SubSeq(h, 1, Len(h) - 1)

\* C31: the request of a user_message holds the two system messages, then
\* the most recent turns of the history as it was before the message, at
\* most 10 of them, then the text of the message once, as the final user
\* turn.  Stated for a handler that is the only one of its session, whose
\* own turn is then the last of the history.
C31_UserTextOnce ==
  \A c \in Conns :
    (Alone(c) /\ messages[c] # << >>) =>
      LET before == Earlier(Sess(c).history)
      IN messages[c] =
           <<SYSTEM_PROMPT, INCIDENT_FACTS>>
             \o Recent(before, Min(Len(before), 10))
             \o <<[role |-> "user", content |-> user_text[c]]>>

\* ----------------------------------------------------------------- C32
IsTyping(ev) == ev.type = "typing"

\* the typing events sent to c for the message it is processing
TypingEvents(c) == SelectSeq(out[c], IsTyping)

\* C32: the typing events of a connection alternate, starting with
\* typing:true: one typing:false after each typing:true, on success and on
\* failure of the backend, and never two typing:false in a row.
C32_TypingAlternates ==
  \A c \in Conns :
    \A i \in 1..Len(TypingEvents(c)) :
      TypingEvents(c)[i].on = (i % 2 = 1)

====
